---- MODULE Spec2Model ----
(***************************************************************************)
(* Model of the podcast ingestion pipeline of kaanTgun/seeker.             *)
(*                                                                         *)
(* Text values (titles, names, URLs) are sequences of one-character        *)
(* strings, so that the sanitizers act on them character by character.     *)
(* Python's None and "" are both the empty sequence: every place where the *)
(* code reads such a value only tests its truthiness.                      *)
(***************************************************************************)
EXTENDS Bags, FiniteSets, Integers, Sequences, TLC

VARIABLES
    bq,               \* warehouse: table name -> bag of rows
    gcs,              \* blob store: set of [bucket, path, data]
    calls,            \* number of insert_episode_data calls made directly
    last,             \* arguments and return value of the last insert_episode_data call
    checked,          \* the existence check made since then: arguments and answer
    inv,              \* concurrent insert_episode_data invocations: position of each
    overlapped,       \* TRUE once two invocations were in progress at the same time
    query_failed,     \* TRUE once an existence query has been made to fail
    faults,           \* number of warehouse faults so far
    podcast_name,     \* configuration key of the podcast of the run
    podcast_data,     \* its configuration entry [rss, title]
    rss_feed,         \* the entries the feed URL serves
    limit,            \* limit argument of process_podcast_feed
    fetched,          \* outcome of fetch_and_parse_feed in the run: "none", "failed", "ok"
    pc,               \* position of process_podcast_feed
    sorted_entries,   \* sorted_entries of process_podcast_feed
    idx,              \* index of the entry the loop is at
    processed_count,  \* processed_count of process_podcast_feed
    result,           \* outcome of the last run
    runs,             \* number of runs started
    http,             \* the request cloud_function_entrypoint is serving, and its response
    extracted,        \* the last extract_episode_data call: arguments and outcome
    derived,          \* the id derivations made so far, in order
    sanitized,        \* a title and the results of sanitize_title applied to it over and over
    stamped           \* the record sets mapped and stamped so far, in order

vars == <<bq, gcs, calls, last, checked, inv, overlapped, query_failed, faults, podcast_name, podcast_data,
          rss_feed, limit, fetched, pc, sorted_entries, idx, processed_count, result, runs,
          http, extracted, derived, sanitized, stamped>>

\* the variables of the unit-level specifications
unitVars == <<extracted, derived, sanitized, stamped>>

runVars == <<podcast_name, podcast_data, rss_feed, limit, fetched, pc, sorted_entries,
             idx, processed_count, result, runs, http, extracted, derived, sanitized, stamped>>

(***************************************************************************)
(* Bounds                                                                  *)
(***************************************************************************)
MaxCalls == 2          \* direct insert_episode_data calls
MaxFaults == 1         \* faulty warehouse operations in one behaviour
MaxEntries == 2        \* entries of a feed
MaxLimit == 2          \* requested limit
MaxRuns == 2           \* sequential runs of process_podcast_feed
MaxRequests == 1       \* requests served by cloud_function_entrypoint
MaxDerived == 3        \* id derivations in one behaviour
MaxTitleLen == 3       \* characters of a title handed to sanitize_title
MaxApplications == 3   \* applications of sanitize_title to one title
MaxStamped == 2        \* record sets stamped in one behaviour

None == <<>>

(***************************************************************************)
(* utils.sanitize_title and uuid_handler                                   *)
(***************************************************************************)
\* \w of Python's re on the model's alphabet
IsWordChar(c) == c \in {"a", "b", "p", "q", "x", "y", "A", "B", "1", "_"}

\* \s of Python's re on the model's alphabet
IsSpaceChar(c) == c \in {" ", "\t"}

\* str.lower on one character
LowerChar(c) == CASE c = "A" -> "a" [] c = "B" -> "b" [] OTHER -> c

\* str.lower
Lower(s) == [i \in 1..Len(s) |-> LowerChar(s[i])]

\* str.replace(old, new) for one-character old and new
Replace(s, old, new) == [i \in 1..Len(s) |-> IF s[i] = old THEN new ELSE s[i]]

\* re.sub(r'[^\w\s.-]', '', s)
RemoveNonWord(s) == SelectSeq(s, LAMBDA c : IsWordChar(c) \/ IsSpaceChar(c) \/ c \in {".", "-"})

RECURSIVE CollapseRuns(_, _, _)
\* re.sub(r'[cls]+', rep, s): every maximal run of characters of cls becomes rep
CollapseRuns(s, cls, rep) ==
    IF s = <<>> THEN <<>>
    ELSE IF Head(s) \in cls
         THEN IF Len(s) > 1 /\ s[2] \in cls
              THEN CollapseRuns(Tail(s), cls, rep)
              ELSE <<rep>> \o CollapseRuns(Tail(s), cls, rep)
         ELSE <<Head(s)>> \o CollapseRuns(Tail(s), cls, rep)

RECURSIVE LStrip(_, _)
LStrip(s, cls) == IF s # <<>> /\ Head(s) \in cls THEN LStrip(Tail(s), cls) ELSE s

RECURSIVE RStrip(_, _)
RStrip(s, cls) ==
    IF s # <<>> /\ s[Len(s)] \in cls THEN RStrip(SubSeq(s, 1, Len(s) - 1), cls) ELSE s

\* str.strip(chars)
Strip(s, cls) == RStrip(LStrip(s, cls), cls)

\* the variant that trims before it collapses the runs
sanitize_title_strip_first(title) ==
    LET s1 == Replace(title, " ", "_")
        s2 == RemoveNonWord(s1)
        s3 == Strip(s2, {"_", "-"})
    IN  CollapseRuns(s3, {"_", ".", "-"}, "_")

sanitize_title(title) ==
    LET s1 == Replace(title, " ", "_")
        s2 == RemoveNonWord(s1)
        s3 == CollapseRuns(s2, {"_", ".", "-"}, "_")
    IN  Strip(s3, {"_", "-"})

prepare_title_for_uuid(title) ==
    IF title = None THEN <<>>
    ELSE LET s1 == Lower(sanitize_title(title))
             s2 == Replace(s1, "_", "-")
             s3 == CollapseRuns(s2, {"-"}, "-")
         IN  Strip(s3, {"-"})

BASE_URL == <<"https://audio-incite.com/">>

\* the variant that leaves the title out of the hashed url
generate_show_id_untitled(show_title) == <<"[">> \o BASE_URL \o <<"shows/">> \o <<"]">>

\* uuid.uuid3(URL_NAMESPACE, url).hex: a hash of the url; the model keeps the
\* hashed url between delimiters (MD5 collisions are not modelled)
uuid3_hex(url) == <<"[">> \o url \o <<"]">>

generate_show_id(show_title) ==
    uuid3_hex(BASE_URL \o <<"shows/">> \o prepare_title_for_uuid(show_title))

generate_episode_id(show_id, episode_title) ==
    uuid3_hex(BASE_URL \o <<"shows/">> \o show_id \o <<"/episodes/">>
              \o prepare_title_for_uuid(episode_title))

\* the variant that files people under the path of the shows
generate_person_id_as_show(person_name) ==
    uuid3_hex(BASE_URL \o <<"shows/">> \o prepare_title_for_uuid(person_name))

generate_person_id(person_name) ==
    uuid3_hex(BASE_URL \o <<"people/">> \o prepare_title_for_uuid(person_name))

generate_audio_id(related_entity_id, audio_type) ==
    uuid3_hex(BASE_URL \o <<audio_type, "/">> \o related_entity_id \o <<"/audio">>)

(***************************************************************************)
(* gcs_handler                                                             *)
(***************************************************************************)
\* the variant that leaves the show out of the path
construct_gcs_object_path_no_show(show_title, episode_title) ==
    <<"audio/">> \o sanitize_title(episode_title) \o <<".mp3">>

construct_gcs_object_path(show_title, episode_title) ==
    <<"audio/">> \o sanitize_title(show_title) \o <<"/">>
        \o sanitize_title(episode_title) \o <<".mp3">>

GCS_BUCKET_NAME == <<"bucket">>

(***************************************************************************)
(* rss_parser: the record set built for one entry                          *)
(***************************************************************************)
NoSize == -1    \* "fileSize": None of the Audio stub

\* The mapping of extract_episode_data from the resolved show title to the
\* returned dictionary.  Descriptive fields that no table key, path or id
\* depends on (description, imageUrl, language, tags, lastUpdated, aliases,
\* durationSeconds) are left out of the rows.
map_to_bq_schema(feed_show_title, episode_title, published_date_utc, audio_url, authors, contributors, rss) ==
    LET show_id == generate_show_id(feed_show_title)
        episode_id == generate_episode_id(show_id, episode_title)
        audio_id == generate_audio_id(episode_id, "episode")
        person(name) == [id |-> generate_person_id(name), full_name |-> name]
    IN  [audio |-> [id |-> audio_id, gcsBucket |-> None, gcsObjectPath |-> None,
                    fileSize |-> NoSize],
         show |-> [id |-> show_id, title |-> feed_show_title,
                   sanitizedTitle |-> sanitize_title(feed_show_title),
                   rssUrl |-> rss],
         episode |-> [id |-> episode_id, showId |-> show_id, title |-> episode_title,
                      sanitizedTitle |-> sanitize_title(episode_title),
                      publishedDate |-> published_date_utc,
                      originalAudioUrl |-> audio_url, audioId |-> audio_id],
         people |-> [i \in 1..Len(authors) |-> person(authors[i])]
                    \o [i \in 1..Len(contributors) |-> person(contributors[i])],
         show_hosts |-> [i \in 1..Len(authors) |->
                            [showId |-> show_id,
                             personId |-> generate_person_id(authors[i])]],
         episode_guests |-> [i \in 1..Len(contributors) |->
                                [episodeId |-> episode_id,
                                 personId |-> generate_person_id(contributors[i])]]]

\* main._process_single_episode: the Audio stub is stamped after the download
stamp_audio(episode_bq_data, audio_data) ==
    [episode_bq_data EXCEPT
        !.audio.fileSize = Len(audio_data),
        !.audio.gcsBucket = GCS_BUCKET_NAME,
        !.audio.gcsObjectPath = construct_gcs_object_path(episode_bq_data.show.title,
                                                          episode_bq_data.episode.title)]

(***************************************************************************)
(* bq_handler                                                              *)
(*                                                                         *)
(* A fault pattern f says, for one insert_episode_data call, how the       *)
(* warehouse client behaves per table: f.ins[t] is the behaviour of        *)
(* insert_rows_json on table t ("ok", "errors": a non-empty error list is  *)
(* returned and no row is stored, "raises": the client raises), f.qry[t]   *)
(* the behaviour of the existence queries on t ("ok": truthful, "fails":   *)
(* the query raises).  On AUDIO, SHOWS and EPISODES a raising client has   *)
(* the effect of "errors" (the exception is caught in                      *)
(* _insert_core_episode_data, which returns False), so "raises" is drawn   *)
(* for the other tables only.                                              *)
(***************************************************************************)
Tables == {"AUDIO", "SHOWS", "EPISODES", "PEOPLE", "SHOW_HOSTS", "EPISODE_GUESTS"}

CoreTables == {"AUDIO", "SHOWS", "EPISODES"}

QueryTables == {"SHOWS", "PEOPLE", "SHOW_HOSTS", "EPISODE_GUESTS"}

NumFaults(f) == Cardinality({t \in Tables : f.ins[t] # "ok"})
                + Cardinality({t \in QueryTables : f.qry[t] # "ok"})

NoFault == [ins |-> [t \in Tables |-> "ok"], qry |-> [t \in QueryTables |-> "ok"]]

\* one faulty operation: the inserts into a table, or the existence queries on it
FaultAtoms ==
    {<<"ins", t, "errors">> : t \in Tables}
    \cup {<<"ins", t, "raises">> : t \in Tables \ CoreTables}
    \cup {<<"qry", t, "fails">> : t \in QueryTables}

WithFault(f, a) ==
    IF a[1] = "ins" THEN [f EXCEPT !.ins[a[2]] = a[3]] ELSE [f EXCEPT !.qry[a[2]] = a[3]]

RECURSIVE PatternsUpTo(_)
\* the fault patterns with at most n faulty operations
PatternsUpTo(n) ==
    IF n = 0 THEN {NoFault}
    ELSE LET P == PatternsUpTo(n - 1) IN P \cup {WithFault(f, a) : f \in P, a \in FaultAtoms}

FaultPatterns == PatternsUpTo(MaxFaults)

EmptyWarehouse == [t \in Tables |-> EmptyBag]

\* client.insert_rows_json(table, [row])
insert_rows_json(db, table, row, mode) ==
    IF mode = "ok" THEN [db EXCEPT ![table] = @ (+) SetToBag({row})] ELSE db

\* the ids are derived as the inserts derive them; a query that raises is
\* caught and answered False
check_episode_exists(db, podcast_name_, episode_name, qmode) ==
    LET show_id == generate_show_id(podcast_name_)
        episode_id == generate_episode_id(show_id, episode_name)
    IN  IF qmode # "ok" THEN FALSE
        ELSE \E r \in BagToSet(db["EPISODES"]) : r.id = episode_id

check_show_exists(db, podcast_name_, qmode) ==
    LET show_id == generate_show_id(podcast_name_)
    IN  IF qmode # "ok" THEN FALSE
        ELSE \E r \in BagToSet(db["SHOWS"]) : r.id = show_id

\* the variant that never finds the record
_check_record_exists_by_id_never(db, table_name, record_id, qmode) == FALSE

\* the variant that takes a failed query for a found record
_check_record_exists_by_id_fail_closed(db, table_name, record_id, qmode) ==
    IF qmode # "ok" THEN TRUE
    ELSE \E r \in BagToSet(db[table_name]) : r.id = record_id

\* a query that raises is caught and answered False
_check_record_exists_by_id(db, table_name, record_id, qmode) ==
    IF qmode # "ok" THEN FALSE
    ELSE \E r \in BagToSet(db[table_name]) : r.id = record_id

\* the variant that filters on the first column only
_check_relationship_exists_col1_only(db, table_name, col1_name, col1_value, col2_name, col2_value, qmode) ==
    IF qmode # "ok" THEN FALSE
    ELSE \E r \in BagToSet(db[table_name]) : r[col1_name] = col1_value

_check_relationship_exists(db, table_name, col1_name, col1_value, col2_name, col2_value, qmode) ==
    IF qmode # "ok" THEN FALSE
    ELSE \E r \in BagToSet(db[table_name]) :
            r[col1_name] = col1_value /\ r[col2_name] = col2_value

\* the variant that goes on to the Episode insert after a failed Show insert
_insert_core_episode_data_no_show_return(db, episode_bq_data, f) ==
    LET db1 == insert_rows_json(db, "AUDIO", episode_bq_data.audio, f.ins["AUDIO"])
        show_exists == _check_record_exists_by_id(db1, "SHOWS", episode_bq_data.show.id,
                                                  f.qry["SHOWS"])
        db2 == IF show_exists THEN db1
               ELSE insert_rows_json(db1, "SHOWS", episode_bq_data.show, f.ins["SHOWS"])
        db3 == insert_rows_json(db2, "EPISODES", episode_bq_data.episode, f.ins["EPISODES"])
    IN  IF f.ins["AUDIO"] # "ok" THEN [db |-> db1, ok |-> FALSE]
        ELSE IF f.ins["EPISODES"] # "ok" THEN [db |-> db3, ok |-> FALSE]
        ELSE [db |-> db3, ok |-> TRUE]

\* returns the warehouse it leaves and its return value; an exception of the
\* client is caught here and turned into False
_insert_core_episode_data(db, episode_bq_data, f) ==
    LET db1 == insert_rows_json(db, "AUDIO", episode_bq_data.audio, f.ins["AUDIO"])
        show_exists == _check_record_exists_by_id(db1, "SHOWS", episode_bq_data.show.id,
                                                  f.qry["SHOWS"])
        db2 == IF show_exists THEN db1
               ELSE insert_rows_json(db1, "SHOWS", episode_bq_data.show, f.ins["SHOWS"])
        db3 == insert_rows_json(db2, "EPISODES", episode_bq_data.episode, f.ins["EPISODES"])
    IN  IF f.ins["AUDIO"] # "ok" THEN [db |-> db1, ok |-> FALSE]
        ELSE IF ~show_exists /\ f.ins["SHOWS"] # "ok" THEN [db |-> db2, ok |-> FALSE]
        ELSE IF f.ins["EPISODES"] # "ok" THEN [db |-> db3, ok |-> FALSE]
        ELSE [db |-> db3, ok |-> TRUE]

\* st = [db, raised]: the warehouse and whether the client has raised
_insert_person_if_not_exists(st, person_data, f) ==
    IF _check_record_exists_by_id(st.db, "PEOPLE", person_data.id, f.qry["PEOPLE"])
    THEN st
    ELSE IF f.ins["PEOPLE"] = "raises" THEN [st EXCEPT !.raised = TRUE]
    ELSE [st EXCEPT !.db = insert_rows_json(st.db, "PEOPLE", person_data, f.ins["PEOPLE"])]

RECURSIVE insert_people(_, _, _)
\* for person_data in episode_bq_data.get('people', [])
insert_people(st, people, f) ==
    IF people = <<>> \/ st.raised THEN st
    ELSE insert_people(_insert_person_if_not_exists(st, Head(people), f), Tail(people), f)

RECURSIVE _insert_show_hosts(_, _, _)
_insert_show_hosts(st, show_hosts_data, f) ==
    IF show_hosts_data = <<>> \/ st.raised THEN st
    ELSE LET show_host_data == Head(show_hosts_data)
             exists == _check_relationship_exists(st.db, "SHOW_HOSTS",
                           "showId", show_host_data.showId,
                           "personId", show_host_data.personId, f.qry["SHOW_HOSTS"])
             st1 == IF exists THEN st
                    ELSE IF f.ins["SHOW_HOSTS"] = "raises" THEN [st EXCEPT !.raised = TRUE]
                    ELSE [st EXCEPT !.db = insert_rows_json(st.db, "SHOW_HOSTS",
                                               show_host_data, f.ins["SHOW_HOSTS"])]
         IN  _insert_show_hosts(st1, Tail(show_hosts_data), f)

RECURSIVE _insert_episode_guests(_, _, _)
_insert_episode_guests(st, episode_guests_data, f) ==
    IF episode_guests_data = <<>> \/ st.raised THEN st
    ELSE LET episode_guest_data == Head(episode_guests_data)
             exists == _check_relationship_exists(st.db, "EPISODE_GUESTS",
                           "episodeId", episode_guest_data.episodeId,
                           "personId", episode_guest_data.personId,
                           f.qry["EPISODE_GUESTS"])
             st1 == IF exists THEN st
                    ELSE IF f.ins["EPISODE_GUESTS"] = "raises"
                         THEN [st EXCEPT !.raised = TRUE]
                    ELSE [st EXCEPT !.db = insert_rows_json(st.db, "EPISODE_GUESTS",
                                               episode_guest_data, f.ins["EPISODE_GUESTS"])]
         IN  _insert_episode_guests(st1, Tail(episode_guests_data), f)

_insert_people_and_relationships(db, episode_bq_data, f) ==
    LET p == insert_people([db |-> db, raised |-> FALSE], episode_bq_data.people, f)
        h == _insert_show_hosts(p, episode_bq_data.show_hosts, f)
    IN  _insert_episode_guests(h, episode_bq_data.episode_guests, f)

\* returns the warehouse it leaves and its return value
insert_episode_data(db, episode_bq_data, f) ==
    LET core == _insert_core_episode_data(db, episode_bq_data, f)
    IN  IF ~core.ok THEN [db |-> core.db, ret |-> FALSE]
        ELSE LET pr == _insert_people_and_relationships(core.db, episode_bq_data, f)
             IN  [db |-> pr.db, ret |-> ~pr.raised]

(***************************************************************************)
(* Input universes                                                         *)
(***************************************************************************)
AudioUrl == <<"m">>

RssUrl == <<"u">>

AudioData == <<"d", "d", "d">>     \* the bytes a download returns

\* (show title, episode title) of the entries
ShowEpisodes == {<<(<<"a">>), (<<"x">>)>>, <<(<<"A">>), (<<"y">>)>>, <<(<<"b">>), (<<"x">>)>>}

\* (entry.authors, entry.contributors) of the entries, as lists of names
EntryPeople == {<< <<>>, <<>> >>, << <<(<<"p">>)>>, <<(<<"p">>)>> >>, << <<(<<"p">>), (<<"q">>)>>, <<(<<"q">>)>> >>}

\* the record sets handed to insert_episode_data: built and stamped as the
\* extractor and the orchestrator build them
RecordSets ==
    {stamp_audio(map_to_bq_schema(se[1], se[2], 1, AudioUrl, ep[1], ep[2], RssUrl), AudioData) :
        se \in ShowEpisodes, ep \in EntryPeople}

(***************************************************************************)
(* Initial values shared by the specifications                             *)
(***************************************************************************)
NoCall == [rs |-> <<>>, f |-> NoFault, ret |-> FALSE]

\* the two invocations that may run at the same time
Procs == {1, 2}

IdleInvocation == [pc |-> "idle", rs |-> <<>>, i |-> 0]

NoCheck == [fn |-> "none", podcast_name |-> None, episode_name |-> None, qmode |-> "ok", present |-> FALSE, answer |-> FALSE]

StoreInit ==
    /\ bq = EmptyWarehouse
    /\ gcs = {}
    /\ calls = 0
    /\ last = NoCall
    /\ checked = NoCheck
    /\ inv = [p \in Procs |-> IdleInvocation]
    /\ overlapped = FALSE
    /\ query_failed = FALSE
    /\ faults = 0

\* a payload field that was not sent, or not read
Missing == [kind |-> "missing", val |-> 0]

NoPayload == [json |-> FALSE, podcast_name |-> None, num_episodes |-> Missing, force |-> FALSE]

NoRequest == [n |-> 0, stage |-> "idle", deployed |-> FALSE, auth_header |-> None, payload |-> NoPayload, reached |-> "none", status |-> "none"]

NoResult == [is_none |-> TRUE, via |-> "none", data |-> <<>>]

NoTitle == [input |-> <<>>, outputs |-> <<>>]

NoExtract == [called |-> FALSE, entry |-> <<>>, show_data |-> <<>>, result |-> NoResult, skipped |-> FALSE]

RunIdle ==
    /\ pc = "idle"
    /\ limit = 0
    /\ fetched = "none"
    /\ sorted_entries = <<>>
    /\ idx = 0
    /\ processed_count = 0
    /\ result = "none"
    /\ runs = 0
    /\ http = NoRequest
    /\ extracted = NoExtract
    /\ derived = <<>>
    /\ sanitized = NoTitle
    /\ stamped = <<>>

(***************************************************************************)
(* SpecInsert: insert_episode_data called in sequence on the warehouse     *)
(***************************************************************************)
InitInsert ==
    /\ StoreInit
    /\ RunIdle
    /\ podcast_name = <<"a">>
    /\ podcast_data = [rss |-> RssUrl, title |-> None]
    /\ rss_feed = <<>>

InsertEpisodeData ==
    /\ calls < MaxCalls
    /\ checked = NoCheck
    /\ \E rs \in RecordSets, f \in FaultPatterns :
          LET r == insert_episode_data(bq, rs, f)
          IN  /\ faults + NumFaults(f) <= MaxFaults
              /\ faults' = faults + NumFaults(f)
              /\ bq' = r.db
              /\ last' = [rs |-> rs, f |-> f, ret |-> r.ret]
              /\ query_failed' = (query_failed \/ \E t \in QueryTables : f.qry[t] # "ok")
    /\ calls' = calls + 1
    /\ UNCHANGED <<checked, inv, overlapped, gcs, runVars>>

\* the (podcast name, episode title) the standalone existence checks ask for
CheckedNames == {<<(<<"a">>), (<<"x">>)>>}

\* check_episode_exists, called with its five arguments on the warehouse
CheckEpisodeExistsCall ==
    /\ checked = NoCheck
    /\ \E se \in CheckedNames, qmode \in {"ok", "fails"} :
          checked' = [fn |-> "check_episode_exists", podcast_name |-> se[1], episode_name |-> se[2],
                      qmode |-> qmode,
                      present |-> check_episode_exists(bq, se[1], se[2], "ok"),
                      answer |-> check_episode_exists(bq, se[1], se[2], qmode)]
    /\ UNCHANGED <<bq, gcs, calls, last, inv, overlapped, query_failed, faults, runVars>>

\* check_show_exists called on the warehouse
CheckShowExistsCall ==
    /\ checked = NoCheck
    /\ \E se \in CheckedNames, qmode \in {"ok", "fails"} :
          checked' = [fn |-> "check_show_exists", podcast_name |-> se[1], episode_name |-> None,
                      qmode |-> qmode,
                      present |-> check_show_exists(bq, se[1], "ok"),
                      answer |-> check_show_exists(bq, se[1], qmode)]
    /\ UNCHANGED <<bq, gcs, calls, last, inv, overlapped, query_failed, faults, runVars>>

\* the caller has read the answer of the existence query; the calls are sequential
ReturnFromCheck ==
    /\ checked # NoCheck
    /\ checked' = NoCheck
    /\ UNCHANGED <<bq, gcs, calls, last, inv, overlapped, query_failed, faults, runVars>>

NextInsert ==
    InsertEpisodeData \/ CheckEpisodeExistsCall \/ CheckShowExistsCall \/ ReturnFromCheck

SpecInsert == InitInsert /\ [][NextInsert]_vars

(***************************************************************************)
(* SpecRace: two insert_episode_data invocations on one warehouse, one     *)
(* warehouse operation (existence query or insert) per step; every query   *)
(* answers truthfully and every insert succeeds                            *)
(***************************************************************************)
\* the writes of one insert_episode_data call in the order of the code:
\* guard "id" is _check_record_exists_by_id, "pair" _check_relationship_exists
WriteOps(rs) ==
    <<[table |-> "AUDIO", guard |-> "none", k |-> 1],
      [table |-> "SHOWS", guard |-> "id", k |-> 1],
      [table |-> "EPISODES", guard |-> "none", k |-> 1]>>
    \o [k \in 1..Len(rs.people) |-> [table |-> "PEOPLE", guard |-> "id", k |-> k]]
    \o [k \in 1..Len(rs.show_hosts) |-> [table |-> "SHOW_HOSTS", guard |-> "pair", k |-> k]]
    \o [k \in 1..Len(rs.episode_guests) |-> [table |-> "EPISODE_GUESTS", guard |-> "pair", k |-> k]]

\* the row a write stores
WriteRow(rs, op) ==
    CASE op.table = "AUDIO" -> rs.audio
      [] op.table = "SHOWS" -> rs.show
      [] op.table = "EPISODES" -> rs.episode
      [] op.table = "PEOPLE" -> rs.people[op.k]
      [] op.table = "SHOW_HOSTS" -> rs.show_hosts[op.k]
      [] op.table = "EPISODE_GUESTS" -> rs.episode_guests[op.k]

\* the invocation in front of its i-th write, or returned after the last
AtWrite(rs, i) ==
    IF i > Len(WriteOps(rs)) THEN IdleInvocation
    ELSE [pc |-> IF WriteOps(rs)[i].guard = "none" THEN "insert" ELSE "check",
          rs |-> rs, i |-> i]

\* the existence check in front of a guarded write
WriteExists(db, rs, op) ==
    LET row == WriteRow(rs, op)
    IN  CASE op.table = "SHOW_HOSTS" ->
                _check_relationship_exists(db, "SHOW_HOSTS", "showId", row.showId,
                                           "personId", row.personId, "ok")
          [] op.table = "EPISODE_GUESTS" ->
                _check_relationship_exists(db, "EPISODE_GUESTS", "episodeId", row.episodeId,
                                           "personId", row.personId, "ok")
          [] OTHER -> _check_record_exists_by_id(db, op.table, row.id, "ok")

InitRace == InitInsert

\* insert_episode_data is entered
RaceBegin(p) ==
    /\ inv[p].pc = "idle"
    /\ calls < MaxCalls
    /\ calls' = calls + 1
    /\ \E rs \in RecordSets : inv' = [inv EXCEPT ![p] = AtWrite(rs, 1)]
    /\ overlapped' = (overlapped \/ \E q \in Procs \ {p} : inv[q].pc # "idle")
    /\ UNCHANGED <<bq, gcs, last, checked, query_failed, faults, runVars>>

\* the existence query in front of a guarded insert: a found row skips it
RaceCheck(p) ==
    /\ inv[p].pc = "check"
    /\ LET rs == inv[p].rs
           i == inv[p].i
       IN  inv' = [inv EXCEPT ![p] =
                      IF WriteExists(bq, rs, WriteOps(rs)[i]) THEN AtWrite(rs, i + 1)
                      ELSE [@ EXCEPT !.pc = "insert"]]
    /\ UNCHANGED <<bq, gcs, calls, last, checked, overlapped, query_failed, faults, runVars>>

\* insert_rows_json of the write the invocation is at
RaceInsert(p) ==
    /\ inv[p].pc = "insert"
    /\ LET rs == inv[p].rs
           i == inv[p].i
           op == WriteOps(rs)[i]
       IN  /\ bq' = insert_rows_json(bq, op.table, WriteRow(rs, op), "ok")
           /\ inv' = [inv EXCEPT ![p] = AtWrite(rs, i + 1)]
    /\ UNCHANGED <<gcs, calls, last, checked, overlapped, query_failed, faults, runVars>>

NextRace == \E p \in Procs : RaceBegin(p) \/ RaceCheck(p) \/ RaceInsert(p)

SpecRace == InitRace /\ [][NextRace]_vars

(***************************************************************************)
(* main: process_podcast_feed                                              *)
(***************************************************************************)
Enclosure(is_audio, url) == [is_audio |-> is_audio, url |-> url]

\* a feed entry; published_parsed is 0 when feedparser parsed no date,
\* feed_title is entry.feed.title
Entry(title, published_parsed, enclosures) ==
    [title |-> title, published |-> IF published_parsed = 0 THEN None ELSE <<"d">>,
     published_parsed |-> published_parsed, enclosures |-> enclosures,
     authors |-> <<>>, contributors |-> <<>>, feed_title |-> None]

EntryPool ==
    {Entry(<<"x">>, 2, <<Enclosure(TRUE, AudioUrl)>>),
     Entry(<<"y">>, 1, <<Enclosure(TRUE, AudioUrl)>>),
     Entry(<<"y">>, 0, <<>>),
     Entry(<<"x">>, 2, <<Enclosure(FALSE, <<"i">>), Enclosure(TRUE, None)>>)}

Feeds == UNION {[1..n -> EntryPool] : n \in 0..MaxEntries}

PodcastConfigs ==
    {[rss |-> None, title |-> None],
     [rss |-> RssUrl, title |-> None],
     [rss |-> RssUrl, title |-> <<"b">>]}

\* the variant whose sentinel is later than every date
SortKey_late_sentinel(entry) ==
    IF entry.published_parsed = 0 THEN 9 ELSE entry.published_parsed

\* key=lambda entry: entry.get('published_parsed') or (0,)
SortKey(entry) == entry.published_parsed

RECURSIVE InsertSorted(_, _)
InsertSorted(e, s) ==
    IF s = <<>> THEN <<e>>
    ELSE IF SortKey(Head(s)) >= SortKey(e) THEN <<Head(s)>> \o InsertSorted(e, Tail(s))
    ELSE <<e>> \o s

RECURSIVE sorted_reverse(_)
\* sorted(feed.entries, key=..., reverse=True): descending and stable
sorted_reverse(entries) ==
    IF entries = <<>> THEN <<>>
    ELSE InsertSorted(entries[Len(entries)],
                      sorted_reverse(SubSeq(entries, 1, Len(entries) - 1)))

RECURSIVE _get_episode_audio_url(_)
\* the url of the first audio-typed enclosure, None without one
_get_episode_audio_url(enclosures) ==
    IF enclosures = <<>> THEN None
    ELSE IF Head(enclosures).is_audio THEN Head(enclosures).url
    ELSE _get_episode_audio_url(Tail(enclosures))

\* def check_episode_exists(client, project_id, dataset_id, podcast_name, episode_name)
check_episode_exists_params ==
    <<"client", "project_id", "dataset_id", "podcast_name", "episode_name">>

\* the arguments of the call in _process_single_episode
check_episode_exists_args(episode_original_audio_url) ==
    <<(<<"BQCLIENT">>), (<<"GCP_PROJECT_ID">>), (<<"BIGQUERY_DATASET_ID">>), episode_original_audio_url>>

\* Python binds positional arguments to parameters before the body (and its
\* try/except) is entered: a missing required argument raises TypeError at
\* the call
CallRaisesTypeError(params, args) == Len(args) # Len(params)

Init ==
    /\ StoreInit
    /\ RunIdle
    /\ podcast_name = <<"a">>
    /\ podcast_data \in PodcastConfigs
    /\ rss_feed \in Feeds

\* process_podcast_feed is entered; without an RSS URL it returns False
StartRun ==
    /\ pc \in {"idle", "done", "raised"}
    /\ runs < MaxRuns
    /\ runs' = runs + 1
    /\ \E lim \in 0..MaxLimit : limit' = lim
    /\ processed_count' = 0
    /\ sorted_entries' = <<>>
    /\ idx' = 0
    /\ fetched' = "none"
    /\ IF podcast_data.rss = None
       THEN pc' = "done" /\ result' = "False"
       ELSE pc' = "fetch" /\ result' = "none"
    /\ UNCHANGED <<bq, gcs, calls, last, checked, inv, overlapped, query_failed, faults, http, unitVars, podcast_name, podcast_data, rss_feed>>

\* _fetch_and_sort_podcast_entries: the fetch may fail; no feed or no
\* entries makes the run return False
FetchAndSort ==
    /\ pc = "fetch"
    /\ \E ok \in BOOLEAN :
          /\ fetched' = IF ok THEN "ok" ELSE "failed"
          /\ IF ~ok \/ rss_feed = <<>>
             THEN /\ pc' = "done" /\ result' = "False"
                  /\ UNCHANGED <<sorted_entries, idx>>
             ELSE /\ sorted_entries' = sorted_reverse(rss_feed)
                  /\ idx' = 1
                  /\ pc' = "episode" /\ result' = "none"
    /\ UNCHANGED <<bq, gcs, calls, last, checked, inv, overlapped, query_failed, faults, http, unitVars, podcast_name, podcast_data,
                   rss_feed, limit, processed_count, runs>>

\* _process_single_episode, up to the audio URL: without one it returns False
GetEpisodeAudioUrl ==
    /\ pc = "episode"
    /\ pc' = IF _get_episode_audio_url(sorted_entries[idx].enclosures) = None
             THEN "limit_check" ELSE "check_exists"
    /\ UNCHANGED <<bq, gcs, calls, last, checked, inv, overlapped, query_failed, faults, http, unitVars, podcast_name, podcast_data,
                   rss_feed, limit, fetched, sorted_entries, idx, processed_count, result, runs>>

\* _process_single_episode: the call of bq_handler.check_episode_exists.  It
\* passes four arguments to five parameters, so it raises TypeError; nothing
\* between the call and the caller of process_podcast_feed catches it.  The
\* statements after the call (extract, download, upload, insert) are never
\* reached.
CheckEpisodeExists ==
    /\ pc = "check_exists"
    /\ CallRaisesTypeError(check_episode_exists_params,
           check_episode_exists_args(_get_episode_audio_url(sorted_entries[idx].enclosures)))
    /\ pc' = "raised"
    /\ result' = "TypeError"
    /\ UNCHANGED <<bq, gcs, calls, last, checked, inv, overlapped, query_failed, faults, http, unitVars, podcast_name, podcast_data,
                   rss_feed, limit, fetched, sorted_entries, idx, processed_count, runs>>

\* the variant that stays at the entry it has just examined
LimitCheck_no_advance ==
    /\ pc = "limit_check"
    /\ IF processed_count >= limit \/ idx = Len(sorted_entries)
       THEN pc' = "done" /\ result' = "True" /\ idx' = idx
       ELSE pc' = "episode" /\ result' = result /\ idx' = idx
    /\ UNCHANGED <<bq, gcs, calls, last, checked, inv, overlapped, query_failed, faults, http, unitVars, podcast_name, podcast_data,
                   rss_feed, limit, fetched, sorted_entries, processed_count, runs>>

\* the loop of process_podcast_feed after an entry that returned False:
\* break at the limit, else the next entry, else the end of the feed
LimitCheck ==
    /\ pc = "limit_check"
    /\ IF processed_count >= limit \/ idx = Len(sorted_entries)
       THEN pc' = "done" /\ result' = "True" /\ idx' = idx
       ELSE pc' = "episode" /\ result' = result /\ idx' = idx + 1
    /\ UNCHANGED <<bq, gcs, calls, last, checked, inv, overlapped, query_failed, faults, http, unitVars, podcast_name, podcast_data,
                   rss_feed, limit, fetched, sorted_entries, processed_count, runs>>

Next == StartRun \/ FetchAndSort \/ GetEpisodeAudioUrl \/ CheckEpisodeExists \/ LimitCheck

Spec == Init /\ [][Next]_vars

\* a step of a run that has been started
RunStep == FetchAndSort \/ GetEpisodeAudioUrl \/ CheckEpisodeExists \/ LimitCheck

\* process_podcast_feed is sequential code without blocking calls other
\* than its collaborators', which return or raise: a started run keeps
\* taking its steps
SpecLive == Init /\ [][Next]_vars /\ WF_vars(RunStep)

(***************************************************************************)
(* rss_parser.extract_episode_data, called as _process_single_episode      *)
(* calls it                                                                *)
(*                                                                         *)
(* A published-date string is <<hour>> (no timezone) or <<hour, zone>>;    *)
(* <<"?">> is a string the date parser rejects.                            *)
(***************************************************************************)
HourOf(c) == CASE c = "1" -> 1 [] c = "2" -> 2 [] OTHER -> 0

OffsetOf(z) == CASE z = "Z" -> 0 [] z = "+1" -> 1 [] z = "-1" -> -1 [] OTHER -> 0

\* dateutil.parser.parse: the wall-clock hour and the timezone, if any
date_parser_parse(published_date_str) ==
    IF published_date_str = <<>> \/ published_date_str[1] \notin {"1", "2"}
    THEN [ok |-> FALSE, hour |-> 0, tzinfo |-> FALSE, offset |-> 0]
    ELSE [ok |-> TRUE, hour |-> HourOf(published_date_str[1]),
          tzinfo |-> Len(published_date_str) > 1,
          offset |-> IF Len(published_date_str) > 1 THEN OffsetOf(published_date_str[2]) ELSE 0]

\* replace(tzinfo=utc) for a naive value, then astimezone(utc)
to_utc(published_date) ==
    LET aware == IF published_date.tzinfo THEN published_date
                 ELSE [published_date EXCEPT !.tzinfo = TRUE, !.offset = 0]
    IN  [aware EXCEPT !.hour = aware.hour - aware.offset, !.offset = 0]

\* datetime.isoformat of a UTC value
isoformat(published_date_utc) == <<published_date_utc.hour, "+00:00">>

\* the variant of the gate that does not look at the title
has_essential_data_no_title(episode_title, published_date_str, audio_url) ==
    published_date_str # None /\ audio_url # None

\* all([episode_title, published_date_str, audio_url])
has_essential_data(episode_title, published_date_str, audio_url) ==
    episode_title # None /\ published_date_str # None /\ audio_url # None

\* the show title of lines 135-145: the configured "title", else the
\* configuration key, else the title of the entry's feed, else 'Unknown Show'
resolve_show_title(show_data, configured_podcast_name, title_from_feed_entry_feed) ==
    IF show_data.title # None THEN show_data.title
    ELSE IF configured_podcast_name # None THEN configured_podcast_name
    ELSE IF title_from_feed_entry_feed # None THEN title_from_feed_entry_feed
    ELSE <<"Unknown", " ", "Show">>

\* the lines of extract_episode_data that read feed_show_title first and
\* that assign it first
feed_show_title_read_at == 115

feed_show_title_assigned_at == 139

\* in straight-line code a local that is read before the line that binds it
\* raises UnboundLocalError
RaisesUnboundLocalError(read_at, assigned_at) == read_at < assigned_at

\* via: the statement the function returns from ("gate": line 95, "date":
\* line 112, "except": the handler of line 249, "return": line 238)
extract_episode_data(feed_entry, show_data, configured_podcast_name) ==
    LET episode_title == feed_entry.title
        published_date_str == feed_entry.published
        audio_url == _get_episode_audio_url(feed_entry.enclosures)
        published_date == date_parser_parse(published_date_str)
    IN  IF ~has_essential_data(episode_title, published_date_str, audio_url)
        THEN [is_none |-> TRUE, via |-> "gate", data |-> <<>>]
        ELSE IF ~published_date.ok
        THEN [is_none |-> TRUE, via |-> "date", data |-> <<>>]
        ELSE IF RaisesUnboundLocalError(feed_show_title_read_at, feed_show_title_assigned_at)
        THEN [is_none |-> TRUE, via |-> "except", data |-> <<>>]
        ELSE [is_none |-> FALSE, via |-> "return",
              data |-> map_to_bq_schema(resolve_show_title(show_data, configured_podcast_name,
                                                           feed_entry.feed_title),
                                        episode_title, isoformat(to_utc(published_date)),
                                        audio_url, feed_entry.authors, feed_entry.contributors,
                                        show_data.rss)]

DateStrings == {None, <<"?">>, <<"1">>, <<"1", "Z">>, <<"2", "+1">>, <<"1", "-1">>}

EnclosureLists ==
    {<<>>,
     <<Enclosure(FALSE, <<"i">>)>>,
     <<Enclosure(TRUE, AudioUrl)>>,
     <<Enclosure(FALSE, <<"i">>), Enclosure(TRUE, None)>>,
     <<Enclosure(TRUE, None), Enclosure(TRUE, AudioUrl)>>}

ExtractEntries ==
    {[title |-> t, published |-> d, published_parsed |-> 0, enclosures |-> en,
      authors |-> ep[1], contributors |-> ep[2], feed_title |-> ft] :
        t \in {None, <<"x">>}, d \in DateStrings, en \in EnclosureLists, ep \in EntryPeople,
        ft \in {None, <<"b">>}}

InitExtract == InitInsert

\* _process_single_episode from the extraction to the skip of an entry
\* without data
ExtractEpisodeData ==
    /\ \E entry \in ExtractEntries, show_data \in PodcastConfigs :
          LET episode_bq_data == extract_episode_data(entry, show_data, podcast_name)
          IN  extracted' = [called |-> TRUE, entry |-> entry, show_data |-> show_data,
                            result |-> episode_bq_data, skipped |-> episode_bq_data.is_none]
    /\ UNCHANGED <<bq, gcs, calls, last, checked, inv, overlapped, query_failed, faults,
                   podcast_name, podcast_data, rss_feed, limit, fetched, pc, sorted_entries,
                   idx, processed_count, result, runs, http, derived, sanitized, stamped>>

NextExtract == ExtractEpisodeData

SpecExtract == InitExtract /\ [][NextExtract]_vars

(***************************************************************************)
(* uuid_handler: id derivations made one after another                     *)
(***************************************************************************)
IdTitles == {<<"a">>, <<"A">>, <<"b">>, <<"a", " ", "b">>, <<"a", "_", "b">>}

\* parent ids of the derived episode and audio ids
ParentShowIds == {generate_show_id(<<"a">>), generate_show_id(<<"b">>)}

ParentEpisodeIds == {generate_episode_id(sh, <<"x">>) : sh \in ParentShowIds}

\* audio_type of generate_audio_id ("episode" is the default) with the ids
\* of the related entities
AudioParents ==
    {<<"episode", e>> : e \in ParentEpisodeIds}
    \cup {<<"show", generate_show_id(<<"a">>)>>, <<"person", generate_person_id(<<"a">>)>>}

\* the inputs of one derivation: kind, title or name, parent id
Derivations ==
    {[kind |-> "show", title |-> t, parent |-> None, audio_type |-> ""] : t \in IdTitles}
    \cup {[kind |-> "episode", title |-> t, parent |-> sh, audio_type |-> ""] : t \in IdTitles, sh \in ParentShowIds}
    \cup {[kind |-> "person", title |-> t, parent |-> None, audio_type |-> ""] : t \in IdTitles}
    \cup {[kind |-> "audio", title |-> None, parent |-> ap[2], audio_type |-> ap[1]] : ap \in AudioParents}

derive_id(d) ==
    CASE d.kind = "show" -> generate_show_id(d.title)
      [] d.kind = "episode" -> generate_episode_id(d.parent, d.title)
      [] d.kind = "person" -> generate_person_id(d.title)
      [] d.kind = "audio" -> generate_audio_id(d.parent, d.audio_type)

InitIds == InitInsert

\* one call of a generate_*_id function
DeriveId ==
    /\ Len(derived) < MaxDerived
    /\ \E d \in Derivations : derived' = Append(derived, [inputs |-> d, id |-> derive_id(d)])
    /\ UNCHANGED <<bq, gcs, calls, last, checked, inv, overlapped, query_failed, faults,
                   podcast_name, podcast_data, rss_feed, limit, fetched, pc, sorted_entries,
                   idx, processed_count, result, runs, http, extracted, sanitized, stamped>>

NextIds == DeriveId

SpecIds == InitIds /\ [][NextIds]_vars

(***************************************************************************)
(* utils.sanitize_title applied to a title, and again to its result        *)
(***************************************************************************)
\* a word character in both cases, the space, another whitespace character,
\* the three separators and a character the sanitizer removes
TitleChars == {"a", "A", " ", "\t", "_", "-", ".", "!"}

Titles == UNION {[1..n -> TitleChars] : n \in 0..MaxTitleLen}

InitSanitize == InitInsert

\* sanitize_title(title), for the one title of the behaviour
SanitizeTitle ==
    /\ sanitized = NoTitle
    /\ \E title \in Titles :
          sanitized' = [input |-> title, outputs |-> <<sanitize_title(title)>>]
    /\ UNCHANGED <<bq, gcs, calls, last, checked, inv, overlapped, query_failed, faults,
                   podcast_name, podcast_data, rss_feed, limit, fetched, pc, sorted_entries,
                   idx, processed_count, result, runs, http, extracted, derived, stamped>>

\* sanitize_title of the last result
SanitizeAgain ==
    /\ sanitized.outputs # <<>>
    /\ Len(sanitized.outputs) < MaxApplications
    /\ sanitized' = [sanitized EXCEPT !.outputs =
                        Append(@, sanitize_title(@[Len(@)]))]
    /\ UNCHANGED <<bq, gcs, calls, last, checked, inv, overlapped, query_failed, faults,
                   podcast_name, podcast_data, rss_feed, limit, fetched, pc, sorted_entries,
                   idx, processed_count, result, runs, http, extracted, derived, stamped>>

NextSanitize == SanitizeTitle \/ SanitizeAgain

SpecSanitize == InitSanitize /\ [][NextSanitize]_vars

(***************************************************************************)
(* The ids of a record set (rss_parser, lines 115-117) and the object path *)
(* it is stamped with (main, lines 170-176), as functions of the show      *)
(* title and the episode title                                             *)
(***************************************************************************)
\* show titles and episode titles, some of them with one display slug, some
\* with one identity slug only
StampedShowTitles == {<<"a">>, <<"A">>, <<"b">>, <<"a", " ", "b">>, <<"a", "_", "b">>}

StampedEpisodeTitles == {<<"x">>, <<"x", "!">>, <<"y">>, <<"x", "/", "y">>, <<"x", "y">>}

InitPaths == InitInsert

\* the mapping of a record set and its stamping after the download
StampAudio ==
    /\ Len(stamped) < MaxStamped
    /\ \E show_title \in StampedShowTitles, episode_title \in StampedEpisodeTitles :
          stamped' = Append(stamped,
                        stamp_audio(map_to_bq_schema(show_title, episode_title, 1, AudioUrl,
                                                     <<>>, <<>>, RssUrl), AudioData))
    /\ UNCHANGED <<bq, gcs, calls, last, checked, inv, overlapped, query_failed, faults,
                   podcast_name, podcast_data, rss_feed, limit, fetched, pc, sorted_entries,
                   idx, processed_count, result, runs, http, extracted, derived, sanitized>>

NextPaths == StampAudio

SpecPaths == InitPaths /\ [][NextPaths]_vars

(***************************************************************************)
(* main: cloud_function_entrypoint                                         *)
(***************************************************************************)
RECURSIVE SplitFrom(_, _)
SplitFrom(s, cur) ==
    IF s = <<>> THEN (IF cur = <<>> THEN <<>> ELSE <<cur>>)
    ELSE IF IsSpaceChar(Head(s))
         THEN (IF cur = <<>> THEN <<>> ELSE <<cur>>) \o SplitFrom(Tail(s), <<>>)
         ELSE SplitFrom(Tail(s), Append(cur, Head(s)))

\* str.split(): the words between runs of whitespace
Split(s) == SplitFrom(s, <<>>)

\* the tokens the verifier accepts
ValidTokens == {<<"t">>}

\* auth_handler.verify_firebase_token: the decoded token or None
verify_firebase_token(id_token) == id_token \in ValidTokens

\* "ok", "401", or the exception that leaves the function
_authenticate_request(auth_header) ==
    IF auth_header = None THEN "401"
    ELSE LET parts == Split(auth_header)
         IN  IF parts = <<>> THEN "IndexError"
             ELSE IF Lower(parts[1]) # <<"b", "e", "a", "r", "e", "r">> \/ Len(parts) # 2
                  THEN "401"
             ELSE IF ~verify_firebase_token(parts[2]) THEN "401"
             ELSE "ok"

\* "ok" or "400"; only podcast_name and num_episodes are read: a "force"
\* field of the payload (force here; FALSE when absent) is not looked at
_parse_and_validate_payload(request_json) ==
    IF ~request_json.json THEN "400"
    ELSE IF request_json.podcast_name = None THEN "400"
    ELSE IF request_json.num_episodes.kind = "missing" THEN "400"
    ELSE IF request_json.num_episodes.kind # "int" \/ request_json.num_episodes.val < 0
         THEN "400"
    ELSE "ok"

AuthHeaders ==
    {None,
     <<" ">>,
     <<"B", "e", "a", "r", "e", "r", " ", "t">>,
     <<"b", "e", "a", "r", "e", "r", " ", "t">>,
     <<"B", "e", "a", "r", "e", "r", " ", "r">>,
     <<"B", "e", "a", "r", "e", "r">>,
     <<"B", "e", "a", "r", "e", "r", " ", "t", " ", "t">>,
     <<"x", " ", "t">>}

NumEpisodes ==
    {Missing, [kind |-> "str", val |-> 0]} \cup {[kind |-> "int", val |-> v] : v \in -1..MaxLimit}

Payloads ==
    {NoPayload}
    \cup {[json |-> TRUE, podcast_name |-> pn, num_episodes |-> ne, force |-> force] :
              pn \in {None, <<"a">>, <<"z">>}, ne \in NumEpisodes, force \in BOOLEAN}

\* the variant that authenticates the request in every environment
Prologue_always_auth(deployed, auth_header, request_json, config_ok) ==
    LET auth == _authenticate_request(auth_header)
        parsed == _parse_and_validate_payload(request_json)
    IN  IF auth = "IndexError" THEN [reached |-> "auth", status |-> "exception"]
        ELSE IF auth # "ok" THEN [reached |-> "auth", status |-> "401"]
        ELSE IF parsed # "ok" THEN [reached |-> "payload", status |-> "400"]
        ELSE IF ~config_ok THEN [reached |-> "config", status |-> "500"]
        ELSE IF request_json.podcast_name # podcast_name
             THEN [reached |-> "lookup", status |-> "400"]
        ELSE [reached |-> "run", status |-> "none"]

\* the stage the request gets to, and the status it is answered with there
\* ("run": process_podcast_feed is called)
Prologue(deployed, auth_header, request_json, config_ok) ==
    LET auth == IF deployed THEN _authenticate_request(auth_header) ELSE "ok"
        parsed == _parse_and_validate_payload(request_json)
    IN  IF auth = "IndexError" THEN [reached |-> "auth", status |-> "exception"]
        ELSE IF auth # "ok" THEN [reached |-> "auth", status |-> "401"]
        ELSE IF parsed # "ok" THEN [reached |-> "payload", status |-> "400"]
        ELSE IF ~config_ok THEN [reached |-> "config", status |-> "500"]
        ELSE IF request_json.podcast_name # podcast_name
             THEN [reached |-> "lookup", status |-> "400"]
        ELSE [reached |-> "run", status |-> "none"]

InitHttp == Init

\* cloud_function_entrypoint up to its call of process_podcast_feed, and
\* that function up to the fetch, for the max_requests-th request at most
\* and in one of the environments (K_SERVICE set or not)
ServeRequest(max_requests, environments) ==
    /\ http.stage \in {"idle", "responded"}
    /\ http.n < max_requests
    /\ \E deployed \in environments, auth_header \in AuthHeaders, request_json \in Payloads, config_ok \in BOOLEAN :
          LET o == Prologue(deployed, auth_header, request_json, config_ok)
          IN  /\ http' = [n |-> http.n + 1,
                          stage |-> IF o.reached = "run" THEN "running" ELSE "responded",
                          deployed |-> deployed,
                          auth_header |-> auth_header,
                          payload |-> IF o.reached = "auth" THEN NoPayload ELSE request_json,
                          reached |-> o.reached,
                          status |-> o.status]
              /\ IF o.reached # "run"
                 THEN UNCHANGED <<limit, processed_count, sorted_entries, idx, fetched, pc,
                                  result, runs>>
                 ELSE /\ runs' = runs + 1
                      /\ limit' = request_json.num_episodes.val
                      /\ processed_count' = 0
                      /\ sorted_entries' = <<>>
                      /\ idx' = 0
                      /\ fetched' = "none"
                      /\ IF podcast_data.rss = None
                         THEN pc' = "done" /\ result' = "False"
                         ELSE pc' = "fetch" /\ result' = "none"
    /\ UNCHANGED <<bq, gcs, calls, last, checked, inv, overlapped, query_failed, faults, unitVars,
                   podcast_name, podcast_data, rss_feed>>

CloudFunctionEntrypoint == ServeRequest(MaxRequests, BOOLEAN)

\* the one request of a process started without K_SERVICE; the handler
\* keeps nothing from one request to the next
CloudFunctionEntrypointLocal == ServeRequest(1, {FALSE})

\* the return of cloud_function_entrypoint after process_podcast_feed; an
\* exception of the run leaves the function, which catches nothing
Respond ==
    /\ http.stage = "running"
    /\ pc \in {"done", "raised"}
    /\ http' = [http EXCEPT !.stage = "responded",
                            !.status = IF pc = "raised" THEN "exception"
                                       ELSE IF result = "True" THEN "200" ELSE "500"]
    /\ UNCHANGED <<bq, gcs, calls, last, checked, inv, overlapped, query_failed, faults, unitVars,
                   podcast_name, podcast_data, rss_feed, limit, fetched, pc, sorted_entries,
                   idx, processed_count, result, runs>>

NextHttp ==
    \/ CloudFunctionEntrypoint
    \/ FetchAndSort
    \/ GetEpisodeAudioUrl
    \/ CheckEpisodeExists
    \/ LimitCheck
    \/ Respond

SpecHttp == InitHttp /\ [][NextHttp]_vars

NextLocal ==
    \/ CloudFunctionEntrypointLocal
    \/ FetchAndSort
    \/ GetEpisodeAudioUrl
    \/ CheckEpisodeExists
    \/ LimitCheck
    \/ Respond

\* the function served in local development
SpecLocal == InitHttp /\ [][NextLocal]_vars

(***************************************************************************)
(* Properties of process_podcast_feed (Spec)                               *)
(***************************************************************************)
Rows(table) == BagToSet(bq[table])

\* the run has returned or has been left by an exception
Terminated == pc \in {"done", "raised"}

\* entries whose _process_single_episode call has returned
Examined == IF pc = "raised" THEN idx - 1 ELSE idx

\* C2: the success count never exceeds the limit, and no entry's pipeline
\* is started once the count has reached the limit (limit 0 included).
C2_LimitBound ==
    /\ processed_count <= limit
    /\ pc \in {"episode", "check_exists"} => processed_count < limit

\* C3: a run that fetched entries ends only when it has made limit
\* successes or when every entry has been examined.
C3_LimitScanning ==
    (Terminated /\ fetched = "ok" /\ rss_feed # <<>>) =>
        processed_count >= limit \/ Examined = Len(sorted_entries)

\* C4: no step of an entry's pipeline makes the run end abnormally.
C4_FailureIsolation == pc # "raised"

\* C5: a run reports failure exactly when the configuration has no RSS URL,
\* the fetch failed or the feed has no entries, then having written nothing;
\* in every other case it reports success.
C5_RunOutcome ==
    Terminated =>
        IF podcast_data.rss = None \/ fetched = "failed" \/ rss_feed = <<>>
        THEN result = "False" /\ bq = EmptyWarehouse /\ gcs = {}
        ELSE result = "True"

\* an entry with a title, a published date and an audio enclosure
GoodEntry(e) ==
    e.title # None /\ e.published # None /\ _get_episode_audio_url(e.enclosures) # None

\* C6: a first run with limit >= 1 over a fetched feed of one good entry
\* ends with one SHOWS row (id derived from the configured name), one
\* EPISODES row, one AUDIO row whose fileSize is the length of the
\* downloaded bytes, and the object stored at audio/{show}/{episode}.mp3.
C6_EndToEnd ==
    (Terminated /\ runs = 1 /\ limit >= 1 /\ fetched = "ok"
        /\ Len(rss_feed) = 1 /\ GoodEntry(rss_feed[1])) =>
        /\ BagCardinality(bq["SHOWS"]) = 1
        /\ \A sh \in Rows("SHOWS") : sh.id = generate_show_id(podcast_name)
        /\ BagCardinality(bq["EPISODES"]) = 1
        /\ BagCardinality(bq["AUDIO"]) = 1
        /\ \A a \in Rows("AUDIO") : a.fileSize = Len(AudioData)
        /\ \E o \in gcs, sh \in Rows("SHOWS") :
              o.path = construct_gcs_object_path(sh.title, rss_feed[1].title)

\* feedparser parsed the published date of the entry
Dated(e) == e.published_parsed # 0

\* s holds the entries of t, each as often as t holds it
SameEntries(s, t) ==
    /\ Len(s) = Len(t)
    /\ \A e \in EntryPool :
          Cardinality({i \in 1..Len(s) : s[i] = e}) = Cardinality({i \in 1..Len(t) : t[i] = e})

\* no entry is followed by one with a later date, nor an entry without a
\* parsed date by a dated one
DescendingByDate(s) ==
    \A i, j \in 1..Len(s) :
        i < j => /\ Dated(s[j]) => Dated(s[i])
                 /\ (Dated(s[i]) /\ Dated(s[j])) => s[i].published_parsed >= s[j].published_parsed

\* C23: the entries the loop goes through are the entries of the feed in
\* descending order of published date, those without a parsed date after
\* all dated ones, and the loop takes them one after another in that order.
C23_ProcessingOrder ==
    /\ [](sorted_entries # <<>> =>
            SameEntries(sorted_entries, rss_feed) /\ DescendingByDate(sorted_entries))
    /\ [][pc' = "episode" => idx' = idx + 1 /\ idx' <= Len(sorted_entries')]_vars

\* the feed serves an entry without a parsed date before a dated one, and
\* the loop has come to the undated entry after the dated one
C23_Witness ==
    /\ pc = "episode" /\ idx = 2
    /\ ~Dated(rss_feed[1]) /\ Dated(rss_feed[2])
    /\ Dated(sorted_entries[1]) /\ ~Dated(sorted_entries[2])

\* process_podcast_feed has been entered and has not returned or raised
Running == pc \in {"fetch", "episode", "check_exists", "limit_check"}

\* C26: every started run ends (it returns, or an exception leaves it),
\* and on the way the loop index only moves from one entry to the next and
\* never past the last entry: each entry is examined at most once.
C26_Termination ==
    /\ [](Running => <>Terminated)
    /\ [](idx <= Len(sorted_entries))
    /\ [][idx' # idx => idx' = 0 \/ idx' = idx + 1]_vars
    /\ [][pc = "limit_check" => pc' \in {"episode", "done"}]_vars

\* a run that has returned after the last of two entries, its limit not
\* reached
C26_Witness ==
    /\ pc = "done" /\ result = "True"
    /\ Len(sorted_entries) = 2 /\ idx = 2
    /\ processed_count < limit

(***************************************************************************)
(* Properties of the warehouse writer (SpecInsert)                         *)
(***************************************************************************)

\* no row is stored twice
UniqueRows(table) == \A r \in Rows(table) : CopiesIn(r, bq[table]) = 1

\* the table holds at most one row per id
UniqueById(table) ==
    /\ UniqueRows(table)
    /\ \A r1, r2 \in Rows(table) : r1.id = r2.id => r1 = r2

\* C7: after any sequence of insert_episode_data calls whose existence
\* queries answered truthfully, SHOWS holds at most one row per show id and
\* PEOPLE at most one row per person id.
C7_ShowPersonAtMostOnce ==
    ~query_failed => UniqueById("SHOWS") /\ UniqueById("PEOPLE")

\* The show was met by two calls (two of its episodes are stored, under
\* titles that differ in case only) and the last record set names one
\* person both as author and as contributor.
C7_Witness ==
    /\ calls = 2 /\ ~query_failed /\ last.ret
    /\ \E e1, e2 \in Rows("EPISODES") : e1.id # e2.id /\ e1.showId = e2.showId
    /\ Len(last.rs.people) = 2 /\ last.rs.people[1].id = last.rs.people[2].id
    /\ \E r \in Rows("PEOPLE") : r.id = last.rs.people[1].id
    /\ \E r \in Rows("SHOWS") : r.id = last.rs.show.id /\ r.title # last.rs.show.title

InSeq(x, seq) == \E i \in 1..Len(seq) : seq[i] = x

\* C9: with truthful existence queries SHOW_HOSTS holds at most one row per
\* (showId, personId) and EPISODE_GUESTS at most one row per (episodeId,
\* personId) (a row of these tables is its pair), and after a call without
\* faults every pair of its record set is stored, whatever rows share one
\* endpoint with it.
C9_RelationshipDedupe ==
    ~query_failed =>
        /\ UniqueRows("SHOW_HOSTS")
        /\ UniqueRows("EPISODE_GUESTS")
        /\ (calls > 0 /\ last.f = NoFault) =>
              /\ last.ret
              /\ \A i \in 1..Len(last.rs.show_hosts) :
                    BagIn(last.rs.show_hosts[i], bq["SHOW_HOSTS"])
              /\ \A i \in 1..Len(last.rs.episode_guests) :
                    BagIn(last.rs.episode_guests[i], bq["EPISODE_GUESTS"])

\* three host rows: two of one show with different people, two of one
\* person with different shows
C9_Witness ==
    /\ ~query_failed /\ calls > 0 /\ last.f = NoFault
    /\ \E r1, r2, r3 \in Rows("SHOW_HOSTS") :
          /\ r1.showId = r2.showId /\ r1.personId # r2.personId
          /\ r1.personId = r3.personId /\ r1.showId # r3.showId
          /\ InSeq(r3, last.rs.show_hosts)

\* C10: every EPISODES row's showId names a row of SHOWS and its audioId a
\* row of AUDIO, in every state, whatever inserts or queries failed.
C10_ReferentialIntegrity ==
    \A e \in Rows("EPISODES") :
        /\ \E sh \in Rows("SHOWS") : sh.id = e.showId
        /\ \E a \in Rows("AUDIO") : a.id = e.audioId

\* the Show insert of the last call failed after its Audio insert, next to
\* an episode stored by an earlier call
C10_Witness ==
    /\ calls = 2 /\ last.f.ins["SHOWS"] = "errors" /\ ~last.ret
    /\ Rows("EPISODES") # {}
    /\ \E a \in Rows("AUDIO") : a.id = last.rs.audio.id
    /\ ~\E sh \in Rows("SHOWS") : sh.id = last.rs.show.id

\* the tables in the order insert_episode_data writes them
TableOrder == <<"AUDIO", "SHOWS", "EPISODES", "PEOPLE", "SHOW_HOSTS", "EPISODE_GUESTS">>

TablePos(table) == CHOOSE i \in 1..Len(TableOrder) : TableOrder[i] = table

\* the rows a record set holds for a table
RecordRows(rs, table) ==
    CASE table = "AUDIO" -> {rs.audio}
      [] table = "SHOWS" -> {rs.show}
      [] table = "EPISODES" -> {rs.episode}
      [] table = "PEOPLE" -> {rs.people[i] : i \in 1..Len(rs.people)}
      [] table = "SHOW_HOSTS" -> {rs.show_hosts[i] : i \in 1..Len(rs.show_hosts)}
      [] table = "EPISODE_GUESTS" -> {rs.episode_guests[i] : i \in 1..Len(rs.episode_guests)}

\* C11: when the only fault of an insert_episode_data call is an insert
\* that reported errors on one table, the inserts into the tables after it
\* in the order are still made: their rows are stored after the call.
C11_MaximalPartialProgress ==
    \A t \in Tables :
        (calls > 0 /\ NumFaults(last.f) = 1 /\ last.f.ins[t] = "errors") =>
            \A u \in Tables : TablePos(u) > TablePos(t) =>
                \A row \in RecordRows(last.rs, u) : BagIn(row, bq[u])

\* C12: a call that returns True had no insert that reported errors: on a
\* table whose inserts report errors it attempted none, every row of its
\* record set for that table being stored already.
C12_SuccessOnlyIfAllInserted ==
    (calls > 0 /\ last.ret) =>
        \A t \in Tables : last.f.ins[t] = "errors" =>
            \A row \in RecordRows(last.rs, t) : BagIn(row, bq[t])

\* the rows a record set holds for a table, in the order they are written
RecordSeq(rs, table) ==
    CASE table = "PEOPLE" -> rs.people
      [] table = "SHOW_HOSTS" -> rs.show_hosts
      [] table = "EPISODE_GUESTS" -> rs.episode_guests
      [] OTHER -> <<CHOOSE row \in RecordRows(rs, table) : TRUE>>

Occurrences(row, seq) == Cardinality({i \in 1..Len(seq) : seq[i] = row})

\* an insert_episode_data call whose inserts all succeed while the
\* existence queries on a table fail returns True and stores every row of
\* its record set for that table once per occurrence, present or not
FailOpenInsert ==
    calls' = calls + 1 =>
        \A t \in QueryTables :
            (last'.f.qry[t] = "fails" /\ \A u \in Tables : last'.f.ins[u] = "ok") =>
                /\ last'.ret
                /\ \A row \in RecordRows(last'.rs, t) :
                      CopiesIn(row, bq'[t]) =
                          CopiesIn(row, bq[t]) + Occurrences(row, RecordSeq(last'.rs, t))

\* C13: an existence check whose query fails answers False (it returns, it
\* does not raise), also when the row is present, and the insert it guards
\* is then made although the row is present.
C13_FailOpenChecks ==
    /\ [](checked.qmode = "fails" => ~checked.answer)
    /\ [][FailOpenInsert]_vars

\* the show is stored twice by a call whose query on SHOWS failed, and a
\* failing check_show_exists then answers False for the show
C13_Witness ==
    /\ last.f.qry["SHOWS"] = "fails" /\ last.ret
    /\ CopiesIn(last.rs.show, bq["SHOWS"]) = 2
    /\ checked.fn = "check_show_exists" /\ checked.qmode = "fails"
    /\ checked.present /\ ~checked.answer
    /\ generate_show_id(checked.podcast_name) = last.rs.show.id

\* C31: after an insert_episode_data call has returned, with True or with
\* False, the Audio row of its record set is stored if and only if its
\* Episode row is stored.
C31_AudioWithEpisode ==
    calls > 0 =>
        ((\E a \in Rows("AUDIO") : a.id = last.rs.audio.id)
            <=> (\E e \in Rows("EPISODES") : e.id = last.rs.episode.id))

\* C32: every SHOW_HOSTS row names a stored person and a stored show, and
\* every EPISODE_GUESTS row a stored person and a stored episode, in every
\* state, a failed Person insert included.
C32_RelationshipsReferToRows ==
    /\ \A r \in Rows("SHOW_HOSTS") :
          /\ \E pe \in Rows("PEOPLE") : pe.id = r.personId
          /\ \E sh \in Rows("SHOWS") : sh.id = r.showId
    /\ \A r \in Rows("EPISODE_GUESTS") :
          /\ \E pe \in Rows("PEOPLE") : pe.id = r.personId
          /\ \E e \in Rows("EPISODES") : e.id = r.episodeId

\* an insert_episode_data call returns True, the value the run counts as a
\* processed episode, exactly when it has written its Episode row
CountedIffEpisodeWritten ==
    calls' = calls + 1 =>
        (last'.ret <=> CopiesIn(last'.rs.episode, bq'["EPISODES"])
                          = CopiesIn(last'.rs.episode, bq["EPISODES"]) + 1)

BearerToken(auth_header) ==
    LET parts == Split(auth_header)
    IN  IF Len(parts) = 2 /\ Lower(parts[1]) = <<"b", "e", "a", "r", "e", "r">>
        THEN parts[2] ELSE None

HeaderAccepted(auth_header) == BearerToken(auth_header) \in ValidTokens

\* C15: a deployed request whose Authorization header is missing, of any
\* shape other than "Bearer <token>" (empty and whitespace-only included) or
\* carries a rejected token is answered 401, and nothing is parsed, loaded,
\* fetched or written for it.
C15_AuthGate ==
    (http.stage = "responded" /\ http.deployed /\ ~HeaderAccepted(http.auth_header)) =>
        /\ http.status = "401"
        /\ http.reached = "auth" /\ http.payload = NoPayload
        /\ fetched = "none" /\ runs = 0
        /\ bq = EmptyWarehouse /\ gcs = {}

PayloadValid(request_json) ==
    /\ request_json.json
    /\ request_json.podcast_name # None
    /\ request_json.num_episodes.kind = "int"
    /\ request_json.num_episodes.val >= 0

\* C16: an authenticated or local request is answered by the first failing
\* stage: 400 for an invalid payload, 500 for a configuration that cannot
\* be loaded, 400 for an unknown podcast, 500 for a failed run (no RSS URL,
\* failed fetch, no entries), 200 otherwise; before a 400 nothing is
\* fetched or written.
C16_ResponseMapping ==
    (http.stage = "responded" /\ (~http.deployed \/ HeaderAccepted(http.auth_header))) =>
        IF ~PayloadValid(http.payload)
        THEN http.status = "400" /\ runs = 0 /\ bq = EmptyWarehouse /\ gcs = {}
        ELSE IF http.reached = "config" THEN http.status = "500"
        ELSE IF http.payload.podcast_name # podcast_name
        THEN http.status = "400" /\ runs = 0 /\ bq = EmptyWarehouse /\ gcs = {}
        ELSE IF podcast_data.rss = None \/ fetched = "failed" \/ rss_feed = <<>>
        THEN http.status = "500"
        ELSE http.status = "200"

\* C17: the run of a request that carries force=true does not make the
\* per-episode dedupe check.
C17_ForceBypassesDedupe ==
    (http.stage = "running" /\ http.payload.force) => pc # "check_exists"

\* C36: a request served without the deployment marker gets, with any
\* other Authorization header (absent, malformed or valid) in place of its
\* own, to the same stage and the same answer; the run it starts reads
\* nothing of the request but the podcast name and the limit.
C36_LocalHeaderIndependence ==
    (http.n > 0 /\ ~http.deployed) =>
        /\ \A auth_header \in AuthHeaders : \E config_ok \in BOOLEAN :
              LET o == Prologue(FALSE, auth_header, http.payload, config_ok)
              IN  /\ o.reached = http.reached
                  /\ http.reached # "run" => o.status = http.status
        /\ http.reached = "run" => limit = http.payload.num_episodes.val

\* local requests with the whitespace-only header, which a deployed
\* environment does not get past: one is answered 200
C36_Witness ==
    /\ ~http.deployed /\ http.auth_header = <<" ">>
    /\ http.stage = "responded" /\ http.status = "200"

(***************************************************************************)
(* Properties of extract_episode_data (SpecExtract)                        *)
(***************************************************************************)
HasAudioUrl(e) == \E i \in 1..Len(e.enclosures) : e.enclosures[i].is_audio /\ e.enclosures[i].url # None

\* an entry without a title, a published date, an audio enclosure URL or a
\* date the parser accepts
BadEntry(e) ==
    e.title = None \/ e.published = None \/ ~HasAudioUrl(e) \/ ~date_parser_parse(e.published).ok

\* C18: for an entry that lacks a title, a published date or an audio
\* enclosure URL, or whose date cannot be parsed, extract_episode_data
\* returns None from its required-field or date check, no exception being
\* raised on the way, and the entry is skipped with nothing written.
C18_ExtractionGateNegative ==
    (extracted.called /\ BadEntry(extracted.entry)) =>
        /\ extracted.result.is_none
        /\ extracted.result.via \in {"gate", "date"}
        /\ extracted.skipped
        /\ bq = EmptyWarehouse /\ gcs = {}

\* an entry with a title and an audio URL whose date string is rejected
C18_Witness ==
    /\ extracted.called
    /\ extracted.entry.title # None /\ HasAudioUrl(extracted.entry)
    /\ extracted.entry.published = <<"?">>
    /\ extracted.result.is_none /\ extracted.result.via = "date"

\* C19: for an entry with a title, a parseable published date and an audio
\* enclosure URL, extract_episode_data returns a record set with an Audio
\* stub, a Show record and an Episode record whose publishedDate is the
\* date converted to UTC.
C19_ExtractionGatePositive ==
    (extracted.called /\ ~BadEntry(extracted.entry)) =>
        /\ ~extracted.result.is_none
        /\ extracted.result.data.audio.id = extracted.result.data.episode.audioId
        /\ extracted.result.data.show.id = extracted.result.data.episode.showId
        /\ extracted.result.data.episode.publishedDate =
               isoformat(to_utc(date_parser_parse(extracted.entry.published)))

RECURSIVE FirstNonEmpty(_)
\* the first non-empty text of a list of texts whose last one is not empty
FirstNonEmpty(texts) ==
    IF Len(texts) = 1 \/ Head(texts) # None THEN Head(texts) ELSE FirstNonEmpty(Tail(texts))

\* C24: the record set extracted for a complete entry carries as show title
\* the first non-empty of the configured 'title', the configured podcast
\* name, the feed's embedded title and 'Unknown Show', and as show id the id
\* derived from that title.
C24_ShowTitleResolution ==
    (extracted.called /\ ~BadEntry(extracted.entry)) =>
        /\ ~extracted.result.is_none
        /\ extracted.result.data.show.title =
               FirstNonEmpty(<<extracted.show_data.title, podcast_name,
                               extracted.entry.feed_title, <<"Unknown", " ", "Show">> >>)
        /\ extracted.result.data.show.id = generate_show_id(extracted.result.data.show.title)

\* the episode id check_episode_exists looks up for a podcast name and an
\* episode title
LookupEpisodeId(podcast_name_, episode_name) ==
    generate_episode_id(generate_show_id(podcast_name_), episode_name)

\* the episode id the mapping of extract_episode_data gives the Episode
\* record of an entry
MappedEpisodeId(feed_entry, show_data, configured_podcast_name) ==
    map_to_bq_schema(resolve_show_title(show_data, configured_podcast_name, feed_entry.feed_title),
                     feed_entry.title, isoformat(to_utc(date_parser_parse(feed_entry.published))),
                     _get_episode_audio_url(feed_entry.enclosures), feed_entry.authors,
                     feed_entry.contributors, show_data.rss).episode.id

\* C29: for every complete entry and every podcast configuration, the
\* episode id the existence check looks up from the configured podcast name
\* and the entry title is the id of the Episode record mapped for the entry
\* from the resolved show title.
C29_DedupeKeyAgreement ==
    (extracted.called /\ ~BadEntry(extracted.entry)) =>
        LookupEpisodeId(podcast_name, extracted.entry.title)
            = MappedEpisodeId(extracted.entry, extracted.show_data, podcast_name)

C21_KindsNeverCollide ==
    \A i, j \in 1..Len(derived) :
        derived[i].inputs.kind # derived[j].inputs.kind => derived[i].id # derived[j].id

\* one raw string derived as a show title and as a person name, next to an
\* audio id
C21_Witness ==
    /\ Len(derived) = 3
    /\ derived[1].inputs.kind = "show" /\ derived[2].inputs.kind = "person"
    /\ derived[1].inputs.title = derived[2].inputs.title
    /\ derived[1].id # derived[2].id
    /\ derived[3].inputs.kind = "audio" /\ derived[3].inputs.audio_type = "show"
    /\ derived[3].inputs.parent = derived[1].id

\* C30: two different show title strings never derive the same show id, so
\* a show whose title is changed gets a new id.
C30_RenameNewIdentity ==
    \A i, j \in 1..Len(derived) :
        (derived[i].inputs.kind = "show" /\ derived[j].inputs.kind = "show"
         /\ derived[i].inputs.title # derived[j].inputs.title)
        => derived[i].id # derived[j].id

(***************************************************************************)
(* Properties of sanitize_title (SpecSanitize)                             *)
(***************************************************************************)
\* C22: sanitize_title applied to its own result returns that result:
\* every later application gives what the first one gave.
C22_SanitizerIdempotence ==
    \A k \in 1..Len(sanitized.outputs) : sanitized.outputs[k] = sanitized.outputs[1]

\* a title of three characters that the first application changes without
\* shortening it, sanitized a second time
C22_Witness ==
    /\ Len(sanitized.outputs) >= 2
    /\ Len(sanitized.input) = 3 /\ Len(sanitized.outputs[1]) = 3
    /\ sanitized.outputs[1] # sanitized.input
    /\ sanitized.outputs[2] = sanitized.outputs[1]

(***************************************************************************)
(* Properties of the object paths (SpecPaths)                              *)
(***************************************************************************)
\* C35: two record sets stamped with the same gcsObjectPath have the same
\* show id and the same episode id: episodes with different ids never
\* share an object path.
C35_PathCollisionsSameIdentity ==
    \A i, j \in 1..Len(stamped) :
        stamped[i].audio.gcsObjectPath = stamped[j].audio.gcsObjectPath =>
            /\ stamped[i].show.id = stamped[j].show.id
            /\ stamped[i].episode.id = stamped[j].episode.id

\* two episodes whose titles differ are stamped with one object path, next
\* to the same episode title under another show at another path
C35_Witness ==
    /\ Len(stamped) = 2
    /\ stamped[1].episode.title # stamped[2].episode.title
    /\ stamped[1].audio.gcsObjectPath = stamped[2].audio.gcsObjectPath
    /\ stamped[1].episode.id = stamped[2].episode.id

====
